---- MODULE Spec2Model ----
(***************************************************************************)
(* A model of the neur static site generator: the option resolver of       *)
(* src/config.rs (command line, settings file, defaults, validation) and   *)
(* the directory walk of src/generator.rs (dispatch on the extension, the  *)
(* stylesheet, page and document transforms, the verbatim copy).           *)
(*                                                                         *)
(* A path is the sequence of its components, as std::path::Path sees it.   *)
(* A component is a record [u, stem, ext]: u leading underscores, then the *)
(* stem, then "." and ext when ext is not empty.  "_template.html" is      *)
(* [u |-> 1, stem |-> "template", ext |-> "html"]; a directory name has    *)
(* u = 0 and ext = "".  Option<T> is a sequence of length 0 (None) or 1.   *)
(***************************************************************************)
EXTENDS Naturals, Sequences, FiniteSets, TLC

VARIABLES
    cli,         \* the command line as clap parsed it (struct Options)
    toml,        \* the settings files of the working directory, by name
    opts,        \* Option<Options>: what Options::new returned
    config,      \* Option<Config>: what Config::parse returned
    pc,          \* where main is
    err,         \* the error main returns, "none" while there is none
    tree,        \* the regular files under the source directory, relative to it
    tera,        \* Option<set of template names>: Generator.tera
    autoescape,  \* the suffixes the template engine autoescapes
    templates,   \* Generator.templates
    stack,       \* the active calls of Generator::directory, innermost first
    mkdirs,      \* the create_dir_all calls that succeeded: [src, dest]
    written,     \* the writes and copies that succeeded
    outFiles,    \* the files of the output tree: path -> content
    processed    \* the files whose Generator::file call returned Ok

vars == <<cli, toml, opts, config, pc, err, tree, tera, autoescape, templates,
          stack, mkdirs, written, outFiles, processed>>

walkVars == <<tera, autoescape, templates, stack, mkdirs, written, outFiles, processed>>

(***************************************************************************)
(* Bounds of the model.                                                    *)
(***************************************************************************)
MaxFiles == 2
MaxDepth == 1

(***************************************************************************)
(* Paths and options.                                                      *)
(***************************************************************************)
None == <<>>
Some(x) == <<x>>
Or(a, b) == IF a # None THEN a ELSE b
UnwrapOr(a, d) == IF a # None THEN a[1] ELSE d

Comp(u, stem, ext) == [u |-> u, stem |-> stem, ext |-> ext]
Dir(s) == Comp(0, s, "")

Parent(p) == SubSeq(p, 1, Len(p) - 1)
FileName(p) == p[Len(p)]
Extension(p) == FileName(p).ext
WithExtension(p, e) == [p EXCEPT ![Len(p)].ext = e]
Skip1(p) == SubSeq(p, 2, Len(p))
StartsWith(p, base) == Len(base) <= Len(p) /\ SubSeq(p, 1, Len(base)) = base

Src == <<Dir("src")>>
Dist == <<Dir("dist")>>
SiteSrc == <<Dir("site"), Dir("src")>>
SrcOut == <<Dir("src"), Dir("out")>>
Site == <<Dir("site")>>

DefaultSource == Src
DefaultOutput == Dist
DefaultMinify == FALSE
DefaultToml == "neur.toml"
AltToml == "alt.toml"
TomlNames == {DefaultToml, AltToml}

(***************************************************************************)
(* src/config.rs                                                           *)
(***************************************************************************)
Options(s, o, m, mc, c) ==
    [source |-> s, output |-> o, minify |-> m, minify_cli |-> mc, config |-> c]

\* toml::from_str: the serde(skip) fields take their default, None.
FromToml(f) == Options(f.source, f.output, f.minify, None, None)

Merge(self, rhs) ==
    [self EXCEPT !.source = Or(self.source, rhs.source),
                 !.output = Or(self.output, rhs.output),
                 !.minify = Or(IF self.minify_cli = None THEN None
                               ELSE Some(UnwrapOr(self.minify_cli[1], TRUE)),
                               rhs.minify)]

\* The settings file Options::new reads: --config, or neur.toml when it exists.
ConfigPath == IF cli.config # None THEN cli.config
              ELSE IF toml[DefaultToml] # None THEN Some(DefaultToml) ELSE None

OptionsNew ==
    /\ pc = "start"
    /\ \E res \in {"ok", "exists", "read", "toml"} :
         /\ CASE res = "exists" -> cli.config = None
              [] res = "read"   -> ConfigPath # None
              [] res = "toml"   -> /\ ConfigPath # None
                                   /\ toml[ConfigPath[1]] # None
                                   /\ ~toml[ConfigPath[1]][1].valid
              [] OTHER          -> IF ConfigPath = None THEN TRUE
                                   ELSE /\ toml[ConfigPath[1]] # None
                                        /\ toml[ConfigPath[1]][1].valid
         /\ IF res = "ok"
            THEN /\ opts' = Some(IF ConfigPath = None THEN cli
                                 ELSE Merge(cli, FromToml(toml[ConfigPath[1]][1])))
                 /\ pc' = "opts"
                 /\ err' = err
            ELSE /\ opts' = opts
                 /\ pc' = "config_err"
                 /\ err' = IF res = "toml" THEN "ParseError" ELSE "IoError"
    /\ UNCHANGED <<cli, toml, config, tree>>
    /\ UNCHANGED walkVars

ResolvedConfig(o) ==
    [source |-> UnwrapOr(o.source, DefaultSource),
     output |-> UnwrapOr(o.output, DefaultOutput),
     minify |-> UnwrapOr(o.minify, DefaultMinify)]

InvalidOneWay(cfg) == StartsWith(cfg.output, cfg.source)

Invalid(cfg) ==
    \/ StartsWith(cfg.output, cfg.source)
    \/ StartsWith(cfg.source, cfg.output)

TryFrom ==
    /\ pc = "opts"
    /\ LET cfg == ResolvedConfig(opts[1])
       IN  IF Invalid(cfg)
           THEN /\ pc' = "config_err"
                /\ err' = "ValidationError"
                /\ config' = config
           ELSE /\ pc' = "cfg"
                /\ err' = err
                /\ config' = Some(cfg)
    /\ UNCHANGED <<cli, toml, opts, tree>>
    /\ UNCHANGED walkVars

(***************************************************************************)
(* src/generator.rs                                                        *)
(***************************************************************************)
Cfg == config[1]
TemplateName == Comp(1, "template", "html")
DefaultAutoescape == {".html", ".htm", ".xml"}

RECURSIVE Prefixes(_)
Prefixes(p) == IF p = <<>> THEN {<<>>} ELSE {p} \cup Prefixes(Parent(p))

Contains(vec, x) == \E i \in 1..Len(vec) : vec[i] = x

DestFlat(path) == Cfg.output \o <<FileName(path)>>

\* Generator::dest: the output directory joined with the path less its first component.
Dest(path) == Cfg.output \o Skip1(path)

\* The name under which html and markdown ask the template engine for a file.
TrimmedPath(path) == Skip1(path)

\* Tera::new(source/**/*): every file under the source directory is a template,
\* named by its path relative to the source directory.
TeraNames == tree

\* fs::read_dir(path): the names of the entries of directory path.
Entries(path) ==
    {c \in {f[Len(path) - Len(Cfg.source) + 1] :
              f \in {g \in tree : Len(g) > Len(path) - Len(Cfg.source)}} :
        \E f \in tree : StartsWith(Cfg.source \o f, path \o <<c>>)}

\* entry.file_type()?.is_dir()
IsDirectory(p) == \A f \in tree : Cfg.source \o f # p

Frame(path) == [path |-> path, todo |-> Entries(path)]

ErrorOf(res) ==
    CASE res \in {"read", "write", "copy", "mkdir", "list"} -> "Io"
      [] res \in {"render", "insert"} -> "Tera"
      [] res = "css" -> "Css"
      [] res = "frontmatter" -> "Frontmatter"

Event(src, dest, how, layout, tpl, min) ==
    [src |-> src, dest |-> dest, how |-> how, layout |-> layout, tpl |-> tpl, min |-> min]

\* fs::write and fs::copy: the file at e.dest now holds e.
Write(e) ==
    /\ written' = written \cup {e}
    /\ outFiles' = [d \in DOMAIN outFiles \cup {e.dest} |->
                       IF d = e.dest THEN e ELSE outFiles[d]]

NoWrite == UNCHANGED <<written, outFiles>>

\* The ? operator on a step's result: Ok goes on with the walk, Err ends the run.
ReturnSwallow(res, next) ==
    /\ pc' = "walk"
    /\ stack' = next
    /\ err' = IF res = "ok" THEN err ELSE ErrorOf(res)

Return(res, next) ==
    IF res = "ok"
    THEN /\ pc' = "walk"
         /\ stack' = next
         /\ err' = err
    ELSE /\ pc' = "gen_err"
         /\ stack' = stack
         /\ err' = ErrorOf(res)

Css(path, res) ==
    /\ res \in {"ok", "read", "css", "write"}
    /\ IF res = "ok"
       THEN Write(Event(path, Dest(path), "css", "none", <<>>, Cfg.minify))
       ELSE NoWrite
    /\ UNCHANGED <<templates, autoescape>>

\* filename.starts_with("_") && !filename.starts_with("__")
IsEscaped(filename) == filename.u >= 1 /\ ~(filename.u >= 2)

Html(path, res) ==
    IF ~IsEscaped(FileName(path))
    THEN /\ res \in {"ok", "render", "write"}
         /\ res # "render" => TrimmedPath(path) \in tera[1]
         /\ IF res = "ok"
            THEN Write(Event(path, Dest(path), "page", "none", TrimmedPath(path), Cfg.minify))
            ELSE NoWrite
         /\ UNCHANGED <<templates, autoescape>>
    ELSE /\ res = "ok"
         /\ templates' = IF FileName(path) = TemplateName
                         THEN Append(templates, Parent(path))
                         ELSE templates
         /\ NoWrite
         /\ UNCHANGED autoescape

RECURSIVE NearestRegistered(_)
NearestRegistered(dir) ==
    IF Contains(templates, dir) THEN Some(dir)
    ELSE IF dir = <<>> THEN None
    ELSE NearestRegistered(Parent(dir))

LayoutDirNearestAncestor(path) == NearestRegistered(Parent(path))

\* The directory whose _template.html renders the document, if any:
\* self.templates.contains(&path.parent()) and path.parent().join("_template.html")
LayoutDir(path) ==
    IF Contains(templates, Parent(path)) THEN Some(Parent(path)) ELSE None

AutoescapeNotRestored(layout, res) ==
    IF layout /\ res \in {"ok", "write", "render"} THEN {} ELSE autoescape

\* autoescape_on(vec![]); render(..)?; autoescape_on(vec![".html", ".htm", ".xml"])
AutoescapeAfter(layout, res) ==
    IF layout /\ res = "render" THEN {}
    ELSE IF layout /\ res \in {"ok", "write"} THEN DefaultAutoescape
    ELSE autoescape

Markdown(path, res) ==
    LET layout == LayoutDir(path) # None
        name == TrimmedPath(LayoutDir(path)[1] \o <<TemplateName>>)
    IN  /\ res \in {"ok", "read", "insert", "frontmatter", "render", "write"}
        /\ (layout /\ res \in {"ok", "write"}) => name \in tera[1]
        /\ autoescape' = AutoescapeAfter(layout, res)
        /\ IF res = "ok"
           THEN Write(Event(path, WithExtension(Dest(path), "html"), "doc",
                            IF layout THEN "layout" ELSE "fallback",
                            IF layout THEN name ELSE <<>>, Cfg.minify))
           ELSE NoWrite
        /\ UNCHANGED templates

Copy(path, res) ==
    /\ res \in {"ok", "copy"}
    /\ IF res = "ok"
       THEN Write(Event(path, Dest(path), "copy", "none", <<>>, FALSE))
       ELSE NoWrite
    /\ UNCHANGED <<templates, autoescape>>

File(path, res) ==
    CASE Extension(path) = "css"  -> Css(path, res)
      [] Extension(path) = "html" -> Html(path, res)
      [] Extension(path) = "md"   -> Markdown(path, res)
      [] OTHER                    -> Copy(path, res)

\* fs::create_dir_all(self.dest(path))? and fs::read_dir(path)?
Directory(path, res) ==
    /\ res \in {"ok", "mkdir", "list"}
    /\ mkdirs' = IF res = "mkdir" THEN mkdirs
                 ELSE mkdirs \cup {[src |-> path, dest |-> Dest(path)]}

Results == {"ok", "read", "write", "copy", "mkdir", "list", "render", "insert",
            "css", "frontmatter"}

GeneratorNew ==
    /\ pc = "cfg"
    /\ \E ok \in BOOLEAN :
         IF ok
         THEN /\ tera' = Some(TeraNames)
              /\ autoescape' = DefaultAutoescape
              /\ pc' = "gen"
              /\ err' = err
         ELSE /\ tera' = tera
              /\ autoescape' = autoescape
              /\ pc' = "gen_err"
              /\ err' = "Tera"
    /\ UNCHANGED <<cli, toml, opts, config, tree, templates, stack, mkdirs,
                   written, outFiles, processed>>

Run ==
    /\ pc = "gen"
    /\ \E res \in Results :
         /\ Directory(Cfg.source, res)
         /\ Return(res, <<Frame(Cfg.source)>>)
    /\ UNCHANGED <<cli, toml, opts, config, tree, tera, autoescape, templates,
                   written, outFiles, processed>>

EnterDirectory ==
    /\ pc = "walk"
    /\ stack # <<>>
    /\ \E c \in Head(stack).todo, res \in Results :
         LET p == Head(stack).path \o <<c>>
             rest == <<[Head(stack) EXCEPT !.todo = @ \ {c}]>> \o Tail(stack)
         IN  /\ IsDirectory(p)
             /\ Directory(p, res)
             /\ Return(res, <<Frame(p)>> \o rest)
    /\ UNCHANGED <<cli, toml, opts, config, tree, tera, autoescape, templates,
                   written, outFiles, processed>>

VisitFile ==
    /\ pc = "walk"
    /\ stack # <<>>
    /\ \E c \in Head(stack).todo, res \in Results :
         LET p == Head(stack).path \o <<c>>
             rest == <<[Head(stack) EXCEPT !.todo = @ \ {c}]>> \o Tail(stack)
         IN  /\ ~IsDirectory(p)
             /\ File(p, res)
             /\ Return(res, rest)
             /\ processed' = IF res = "ok" THEN processed \cup {p} ELSE processed
    /\ UNCHANGED <<cli, toml, opts, config, tree, tera, mkdirs>>

\* The for loop of Generator::directory is over: Ok(()) to the caller.
LeaveDirectory ==
    /\ pc = "walk"
    /\ stack # <<>>
    /\ Head(stack).todo = {}
    /\ stack' = Tail(stack)
    /\ pc' = IF Tail(stack) = <<>> THEN "done" ELSE "walk"
    /\ UNCHANGED <<cli, toml, opts, config, err, tree, tera, autoescape, templates,
                   mkdirs, written, outFiles, processed>>

(***************************************************************************)
(* The inputs of the option resolver.                                      *)
(***************************************************************************)
OptBool == {None, Some(TRUE), Some(FALSE)}
TomlFiles(sources, outputs, minifies) ==
    {None} \cup {Some([valid |-> FALSE, source |-> None, output |-> None, minify |-> None])}
           \cup {Some([valid |-> TRUE, source |-> s, output |-> o, minify |-> m]) :
                    s \in sources, o \in outputs, m \in minifies}

InitWalkVars ==
    /\ tera = None
    /\ autoescape = {}
    /\ templates = <<>>
    /\ stack = <<>>
    /\ mkdirs = {}
    /\ written = {}
    /\ outFiles = <<>>
    /\ processed = {}

InitConfig ==
    /\ cli \in {Options(s, o, None, mc, c) :
                  s \in {None, Some(Src), Some(SiteSrc)},
                  o \in {None, Some(Dist), Some(SrcOut), Some(Site)},
                  mc \in {None, Some(None), Some(Some(TRUE)), Some(Some(FALSE))},
                  c \in {None, Some(AltToml)}}
    /\ toml \in [TomlNames -> TomlFiles({None, Some(SiteSrc)}, {None, Some(Site)}, OptBool)]
    /\ opts = None
    /\ config = None
    /\ pc = "start"
    /\ err = "none"
    /\ tree = {}
    /\ InitWalkVars

NextConfig == OptionsNew \/ TryFrom

SpecConfig == InitConfig /\ [][NextConfig]_vars

(***************************************************************************)
(* The source trees: up to MaxFiles files, in directories nested up to     *)
(* MaxDepth deep.                                                          *)
(***************************************************************************)
FileNames ==
    {TemplateName, Comp(0, "post", "md"), Comp(0, "post", "html"),
     Comp(1, "post", "html"), Comp(2, "post", "html"), Comp(0, "post", "css"),
     Comp(0, "post", "CSS"), Comp(0, "post", "")}

RelDirs == UNION {[1..n -> {Dir("src")}] : n \in 0..MaxDepth}
RelPaths == {d \o <<n>> : d \in RelDirs, n \in FileNames}

RECURSIVE SubsetsUpTo(_, _)
SubsetsUpTo(S, k) ==
    IF k = 0 THEN {{}}
    ELSE LET prev == SubsetsUpTo(S, k - 1)
         IN  prev \cup {t \cup {x} : t \in prev, x \in S}

Trees == SubsetsUpTo(RelPaths, MaxFiles)

Init ==
    /\ cli \in {Options(s, o, None, mc, None) :
                  s \in {None, Some(SiteSrc)},
                  o \in {None, Some(Src), Some(SrcOut), Some(Site)},
                  mc \in {None}}
    /\ toml \in [TomlNames -> TomlFiles({None}, {None}, {Some(TRUE)})]
    /\ toml[AltToml] = None
    /\ opts = None
    /\ config = None
    /\ pc = "start"
    /\ err = "none"
    /\ tree \in Trees
    /\ InitWalkVars

Next ==
    \/ OptionsNew
    \/ TryFrom
    \/ GeneratorNew
    \/ Run
    \/ EnterDirectory
    \/ VisitFile
    \/ LeaveDirectory

Spec == Init /\ [][Next]_vars

(***************************************************************************)
(* What the specification says, in the terms of the model.                 *)
(***************************************************************************)
\* p relative to the source directory, and its mirrored output path.
Rel(p) == SubSeq(p, Len(Cfg.source) + 1, Len(p))
Mirror(p) == Cfg.output \o Rel(p)
IsUnder(p, q) == \E n \in 0..Len(p) : SubSeq(p, 1, n) = q

\* The settings file in effect, and the value an option resolves to: the command
\* line's, else the file's, else the default.
FileInEffect == ConfigPath # None /\ toml[ConfigPath[1]] # None
FileSource == IF FileInEffect THEN toml[ConfigPath[1]][1].source ELSE None
FileOutput == IF FileInEffect THEN toml[ConfigPath[1]][1].output ELSE None
FileMinify == IF FileInEffect THEN toml[ConfigPath[1]][1].minify ELSE None
CliMinify == IF cli.minify_cli = None THEN None
             ELSE IF cli.minify_cli[1] = None THEN Some(TRUE) ELSE cli.minify_cli[1]
ExpectedSource == IF cli.source # None THEN cli.source[1]
                  ELSE IF FileSource # None THEN FileSource[1] ELSE Src
ExpectedOutput == IF cli.output # None THEN cli.output[1]
                  ELSE IF FileOutput # None THEN FileOutput[1] ELSE Dist
ExpectedMinify == IF CliMinify # None THEN CliMinify[1]
                  ELSE IF FileMinify # None THEN FileMinify[1] ELSE FALSE

\* C1: a document whose directory holds _template.html is rendered with that
\* layout, never with the fallback, in whatever order the walker lists the
\* directory.
C1_LayoutWhateverTheOrder ==
    \A w \in written :
        (w.how = "doc" /\ Rel(Parent(w.src)) \o <<TemplateName>> \in tree)
            => w.layout = "layout"

\* C2: after a completed run every file whose extension is none of css, html, md
\* is at its mirrored output path, as a copy of itself.
C2_OthersCopiedToMirror ==
    pc = "done" =>
        \A f \in tree :
            Extension(f) \notin {"css", "html", "md"} =>
                /\ Cfg.output \o f \in DOMAIN outFiles
                /\ outFiles[Cfg.output \o f].how = "copy"
                /\ outFiles[Cfg.output \o f].src = Cfg.source \o f

\* C3: an .html file the walker has processed has exactly one output file, at its
\* mirrored path, unless its name starts with exactly one underscore, and then
\* it has none.
C3_PagesWrittenOnceAtMirror ==
    \A p \in processed :
        Extension(p) = "html" =>
            LET ws == {w \in written : w.src = p}
            IN  IF FileName(p).u = 1 THEN ws = {}
                ELSE Cardinality(ws) = 1 /\ \A w \in ws : w.dest = Mirror(p)

\* C4: when the resolved output directory is under the resolved source directory,
\* or the source under the output, or the two are equal, Config::parse returns a
\* validation error and nothing is generated: no Generator, no directory, no file.
C4_NestedDirectoriesAbort ==
    (opts # None /\ pc # "opts" /\
     (IsUnder(ExpectedOutput, ExpectedSource) \/ IsUnder(ExpectedSource, ExpectedOutput)))
        => /\ pc = "config_err"
           /\ err = "ValidationError"
           /\ config = None
           /\ tera = None
           /\ mkdirs = {}
           /\ written = {}
           /\ outFiles = <<>>

C4_Witness ==
    /\ pc = "config_err"
    /\ err = "ValidationError"
    /\ tree # {}
    /\ IsUnder(ExpectedSource, ExpectedOutput)
    /\ ~IsUnder(ExpectedOutput, ExpectedSource)

\* C5: each of source, output and minify takes the command line's value when it
\* gives one, else the settings file's, else the default, whether or not a
\* settings file is present.
C5_CommandLineFirst ==
    pc = "cfg" =>
        /\ Cfg.source = ExpectedSource
        /\ Cfg.output = ExpectedOutput
        /\ Cfg.minify = ExpectedMinify

\* C6: every output path the walk computes, of a directory or of a file, is the
\* output directory joined with the path relative to the source directory.
C6_DestMirrorsSource ==
    /\ \A e \in mkdirs : e.dest = Mirror(e.src)
    /\ \A w \in written :
          w.dest = IF w.how = "doc" THEN WithExtension(Mirror(w.src), "html")
                   ELSE Mirror(w.src)

\* C7: the first failure ends the run: it is the error returned, the files
\* written before it stay in place, and no step follows it.
C7_FirstFailureEndsTheRun ==
    [][/\ err # "none" => UNCHANGED vars
       /\ (err = "none" /\ err' # "none") =>
             /\ pc' \in {"config_err", "gen_err"}
             /\ written \subseteq written'
             /\ \A d \in DOMAIN outFiles :
                   d \in DOMAIN outFiles' /\ outFiles'[d] = outFiles[d]]_vars

C7_Witness ==
    /\ pc = "gen_err"
    /\ err = "Io"
    /\ written # {}
    /\ stack # <<>>
    /\ Head(stack).todo # {}

\* C8 as stated: a document whose parent directory is not registered, while an
\* ancestor directory is, is rendered with a layout and not with the fallback.
C8_NearestAncestorLayout ==
    [][\A w \in written' \ written :
          (/\ w.how = "doc"
           /\ ~Contains(templates, Parent(w.src))
           /\ \E a \in Prefixes(Parent(w.src)) : Contains(templates, a))
             => w.layout = "layout"]_vars

\* C8 as amended: a document is rendered with a layout exactly when its own parent
\* directory is in the registry at that time, and with the fallback otherwise.
C8_LayoutOnlyOfParent ==
    [][\A w \in written' \ written :
          w.how = "doc" =>
             IF Contains(templates, Parent(w.src))
             THEN w.layout = "layout"
             ELSE w.layout = "fallback"]_vars

\* The walker is still in the document's directory, which it entered after the
\* ancestor's layout was registered.
C8_Witness ==
    \E w \in written :
        /\ w.how = "doc"
        /\ w.layout = "fallback"
        /\ stack # <<>>
        /\ Head(stack).path = Parent(w.src)
        /\ ~Contains(templates, Parent(w.src))
        /\ Contains(templates, Parent(Parent(w.src)))

\* C9: wherever a page can be rendered, and after every document transform that
\* returned Ok, autoescaping is on for .html, .htm and .xml.
C9_AutoescapeOn ==
    pc \in {"gen", "walk", "done"} => autoescape = DefaultAutoescape

C9_Witness ==
    /\ pc = "walk"
    /\ autoescape = DefaultAutoescape
    /\ \E w \in written : w.how = "doc" /\ w.layout = "layout"

\* C10: two source files are written to one output path only when they are a
\* document X.md and a page X.html of one directory.
C10_OnlyDocAndPageCollide ==
    \A v, w \in written :
        (v.src # w.src /\ v.dest = w.dest) =>
            /\ Parent(v.src) = Parent(w.src)
            /\ FileName(v.src).u = FileName(w.src).u
            /\ FileName(v.src).stem = FileName(w.src).stem
            /\ {Extension(v.src), Extension(w.src)} = {"md", "html"}
            /\ {v.how, w.how} = {"doc", "page"}

C10_Witness ==
    \E v, w \in written : v.src # w.src /\ v.dest = w.dest

====
